---- MODULE Spec2Model ----
(***************************************************************************)
(* A model of dashboard/server.js: the Log Hub (logSubscribers, buildLogs, *)
(* the /ws/logs connection handler, broadcastLogs), the Deployment Tracker *)
(* (POST /api/templates/:templateId/deploy, simulateBuildLogs) and the     *)
(* hostname Routing Resolver (app.use('/apps/*')).                         *)
(*                                                                         *)
(* Node runs every handler and timer callback to completion on one thread, *)
(* so each callback is one action.  A handler that awaits is modelled at   *)
(* the point where it resumes when it touches no shared state before the   *)
(* await (the deploy handler reads only its own request before fetch).     *)
(***************************************************************************)
EXTENDS Integers, Sequences, FiniteSets, TLC

VARIABLES
    logSubscribers,  \* Map appId -> [ws, ...]          (server.js:29)
    buildLogs,       \* Map buildId -> [line, ...]      (server.js:30)
    conns,           \* the WebSocket objects accepted on /ws/logs, by id
    sessions,        \* the closures created by simulateBuildLogs, by id
    timerQ,          \* armed setInterval timers (2000 ms), in firing order
    purgeQ,          \* armed setTimeout purges (3600000 ms), in firing order
    published,       \* history: per subject, the lines passed to broadcastLogs
    purged,          \* history: subjects whose buildLogs.delete has run
    lastDeploy,      \* the last request served by the deploy endpoint
    route,           \* last decision of the Routing Resolver
    metrics,         \* the request served by GET /api/system/metrics
    streams,         \* the responses opened by GET /api/builds/:buildId/logs
    crashed          \* the process died of an uncaught exception

vars == <<logSubscribers, buildLogs, conns, sessions, timerQ, purgeQ,
          published, purged, lastDeploy, route, metrics, streams, crashed>>

----------------------------------------------------------------------------
(* Bounds of the model *)

MaxConns == 2        \* connections accepted on /ws/logs
MaxDeploys == 2      \* deployments that start a BuildSession
MaxApps == 2         \* records in the list returned by GET /api/apps
MaxContainers == 2   \* containers of the engine queried by the metrics handler
MaxStreams == 2      \* responses opened by GET /api/builds/:buildId/logs
MaxFrames == 2       \* writes made to one build log stream

(* Program constants *)

NumMessages == 5         \* messages.length in simulateBuildLogs
TickMs == 2000           \* period of the setInterval
RetentionMs == 3600000   \* delay of the purge setTimeout

----------------------------------------------------------------------------
(* Values *)

Null == "null"                      \* a missing query parameter / undefined
Subjects == {"a", "b"}              \* ids used as appId, buildId, app_id

OPEN == "OPEN"                      \* WebSocket.readyState values
CLOSING == "CLOSING"
CLOSED == "CLOSED"

\* TEMPLATES: templateId -> template.name
TEMPLATES ==
    [t \in {"nodejs-api", "python-fastapi", "static-site", "wordpress"} |->
        CASE t = "nodejs-api" -> "Node.js API"
          [] t = "python-fastapi" -> "Python FastAPI"
          [] t = "static-site" -> "Static Site"
          [] t = "wordpress" -> "WordPress"]

\* A log line is <<text, template name inside the text>>.
StartLine == <<"Starting template deployment...", "">>

\* const messages = [...] of simulateBuildLogs, 1-based
messages(templateName) ==
    << <<"Cloning template...", templateName>>,
       <<"Installing dependencies...", "">>,
       <<"Building Docker image...", "">>,
       <<"Starting container...", "">>,
       <<"Deployment complete!", "">> >>

----------------------------------------------------------------------------
(* Map helpers: a Map is a function whose DOMAIN is its key set *)

MapHas(m, k) == k \in DOMAIN m
MapSet(m, k, v) == [x \in DOMAIN m \cup {k} |-> IF x = k THEN v ELSE m[x]]
MapDelete(m, k) == [x \in DOMAIN m \ {k} |-> m[x]]
EmptyMap == [x \in {} |-> <<>>]

\* Array.prototype.indexOf, 1-based; 0 when absent (the code's -1)
RECURSIVE IndexFrom(_, _, _)
IndexFrom(arr, x, i) ==
    IF i > Len(arr) THEN 0
    ELSE IF arr[i] = x THEN i ELSE IndexFrom(arr, x, i + 1)
indexOf(arr, x) == IndexFrom(arr, x, 1)

\* arr.splice(i, 1) for a 1-based position i inside arr
splice1(arr, i) == SubSeq(arr, 1, i - 1) \o SubSeq(arr, i + 1, Len(arr))

----------------------------------------------------------------------------
(* Log Hub *)

\* ws.send(payload): the payload joins the frames written to the socket
wsSend_Prepend(received, msg) == <<msg>> \o received

wsSend(received, msg) == Append(received, msg)

\* The payload of the replay: {type:'logs', data: buildLogs.get(buildId)}.
\* key is the Map key the data was read under.
ReplayMsg(buildId, buffer) ==
    [type |-> "logs", data |-> buffer, timestamp |-> FALSE, key |-> buildId]

\* The payload of a broadcast: {type:'logs', data: logData, timestamp}.
\* data is held as the sequence of the lines carried (here one).
LiveMsg(appId, logData) ==
    [type |-> "logs", data |-> <<logData>>, timestamp |-> TRUE, key |-> appId]

\* if (buildLogs.has(buildId)) ws.send({type:'logs', data: buildLogs.get(buildId)})
sendRecentLogs_Always(logs, buildId, received) ==
    wsSend(received,
           ReplayMsg(buildId, IF MapHas(logs, buildId) THEN logs[buildId] ELSE <<>>))

sendRecentLogs(logs, buildId, received) ==
    IF MapHas(logs, buildId)
    THEN wsSend(received, ReplayMsg(buildId, logs[buildId]))
    ELSE received

\* subscribers.forEach(ws => { if (ws.readyState === OPEN) ws.send(...) })
RECURSIVE forEachSend_NoStateCheck(_, _, _)
forEachSend_NoStateCheck(subscribers, cs, msg) ==
    IF subscribers = <<>> THEN cs
    ELSE LET ws == Head(subscribers) IN
         forEachSend_NoStateCheck(Tail(subscribers),
                     [cs EXCEPT ![ws].received = wsSend(@, msg)], msg)

RECURSIVE forEachSend_StopAtNotOpen(_, _, _)
forEachSend_StopAtNotOpen(subscribers, cs, msg) ==
    IF subscribers = <<>> THEN cs
    ELSE LET ws == Head(subscribers) IN
         IF cs[ws].readyState = OPEN /\ ~cs[ws].broken
         THEN forEachSend_StopAtNotOpen(Tail(subscribers),
                     [cs EXCEPT ![ws].received = wsSend(@, msg)], msg)
         ELSE cs

RECURSIVE forEachSend(_, _, _)
forEachSend(subscribers, cs, msg) ==
    IF subscribers = <<>> THEN cs
    ELSE LET ws == Head(subscribers) IN
         forEachSend(Tail(subscribers),
                     IF cs[ws].readyState = OPEN
                     THEN [cs EXCEPT ![ws].received = wsSend(@, msg)]
                     ELSE cs,
                     msg)

\* function broadcastLogs(appId, logData): the connections after the call
broadcastLogs(subs, cs, appId, logData) ==
    IF MapHas(subs, appId)
    THEN forEachSend(subs[appId], cs, LiveMsg(appId, logData))
    ELSE cs

\* ws.on('close', ...): the subscriber map after the handler has run
closeHandler_Keep(subs, appId, ws) == subs

closeHandler_NoGuard(subs, appId, ws) ==
    LET subscribers == IF MapHas(subs, appId) THEN subs[appId] ELSE <<>>
        index == indexOf(subscribers, ws)
    IN IF ~MapHas(subs, appId) \/ subscribers = <<>> THEN subs
       ELSE IF index > 0
       THEN [subs EXCEPT ![appId] = splice1(subscribers, index)]
       ELSE [subs EXCEPT ![appId] = splice1(subscribers, Len(subscribers))]

closeHandler(subs, appId, ws) ==
    LET subscribers == IF MapHas(subs, appId) THEN subs[appId] ELSE <<>>
        index == indexOf(subscribers, ws)
    IN IF index > 0
       THEN [subs EXCEPT ![appId] = splice1(subscribers, index)]
       ELSE subs

\* wss.on('connection'): a new ws, with the query parameters of the upgrade.
\* received: the payloads passed to ws.send while the socket exists.
\* broken: the connection has failed and the socket has not left OPEN yet.
\* early (history): the sessions of this subject that have not ticked yet.
\* closedAt (history): the publishes to the subject when 'close' ran.
Connect(appId, buildId) ==
    /\ LET ws == Len(conns) + 1 IN
          /\ conns' = Append(conns,
                [appId |-> appId, buildId |-> buildId, readyState |-> OPEN,
                 broken |-> FALSE,
                 received |-> IF appId # Null
                              THEN sendRecentLogs(buildLogs, buildId, <<>>)
                              ELSE <<>>,
                 early |-> {s \in 1..Len(sessions) :
                              sessions[s].appId = appId /\ sessions[s].index = 0},
                 closedAt |-> 0])
          /\ logSubscribers' =
                IF appId # Null
                THEN MapSet(logSubscribers, appId,
                            Append(IF MapHas(logSubscribers, appId)
                                   THEN logSubscribers[appId] ELSE <<>>, ws))
                ELSE logSubscribers
    /\ UNCHANGED <<buildLogs, sessions, timerQ, purgeQ, published, purged,
                   lastDeploy, route, metrics, streams,
                   crashed>>

\* The peer or the transport starts closing: readyState leaves OPEN before
\* the 'close' event is emitted.
BeginClose(ws) ==
    /\ ws \in 1..Len(conns)
    /\ conns[ws].readyState = OPEN
    /\ conns' = [conns EXCEPT ![ws].readyState = CLOSING]
    /\ UNCHANGED <<logSubscribers, buildLogs, sessions, timerQ, purgeQ,
                   published, purged, lastDeploy, route, metrics, streams,
                   crashed>>

\* The socket is gone: readyState becomes CLOSED and 'close' is emitted,
\* which runs the handler registered at line 114 (only when appId was given).
\* The frames written to a socket are observed while the socket exists.
EmitClose(ws) ==
    /\ ws \in 1..Len(conns)
    /\ conns[ws].readyState # CLOSED
    /\ conns' = [conns EXCEPT ![ws].readyState = CLOSED,
                              ![ws].received = <<>>,
                              ![ws].closedAt = Len(published[conns[ws].appId])]
    /\ logSubscribers' =
          IF conns[ws].appId # Null
          THEN closeHandler(logSubscribers, conns[ws].appId, ws)
          ELSE logSubscribers
    /\ UNCHANGED <<buildLogs, sessions, timerQ, purgeQ, published, purged,
                   lastDeploy, route, metrics, streams,
                   crashed>>

\* An open connection fails (the peer vanishes, a write fails, a malformed
\* frame arrives): ws.send does not throw for it; the socket then leaves OPEN
\* either silently (BeginClose) or with an 'error' event (EmitError).
ConnectionFails(ws) ==
    /\ ws \in 1..Len(conns)
    /\ conns[ws].readyState = OPEN
    /\ ~conns[ws].broken
    /\ conns' = [conns EXCEPT ![ws].broken = TRUE]
    /\ UNCHANGED <<logSubscribers, buildLogs, sessions, timerQ, purgeQ,
                   published, purged, lastDeploy, route, metrics, streams,
                   crashed>>

\* ws.on('error', ...) is registered inside `if (appId)` only
hasErrorHandler(appId) == appId # Null

\* The 'error' event of a broken connection: readyState has left OPEN, the
\* handler of line 120 logs the error; an 'error' event without a listener
\* is thrown and ends the process.
EmitError(ws) ==
    /\ ws \in 1..Len(conns)
    /\ conns[ws].broken
    /\ conns[ws].readyState = OPEN
    /\ conns' = [conns EXCEPT ![ws].readyState = CLOSING]
    /\ crashed' = (crashed \/ ~hasErrorHandler(conns[ws].appId))
    /\ UNCHANGED <<logSubscribers, buildLogs, sessions, timerQ, purgeQ,
                   published, purged, lastDeploy, route, metrics, streams>>

----------------------------------------------------------------------------
(* Deployment Tracker *)

\* What the upstream POST /api/deploy can do: fetch rejects, the body is not
\* JSON, the body is JSON null, the body is an error object without app_id,
\* or the body is a deployment {app_id: S, ...}
UpstreamFailures == {"throws", "notJson", "nullBody", "errorBody"}
UpstreamOutcomes == UpstreamFailures \cup Subjects

\* result.app_id after `await deployResponse.json()`; "raise" when an
\* exception reaches the catch block first
resultAppId(outcome) ==
    CASE outcome \in {"throws", "notJson"} -> "raise"   \* fetch / json() throw
      [] outcome = "nullBody" -> "raise"                \* null.app_id throws
      [] outcome = "errorBody" -> Null                  \* no app_id field
      [] OTHER -> outcome

\* if (result.app_id)
hasAppId_Unchecked(app_id) == TRUE

hasAppId(app_id) == app_id # Null

\* simulateBuildLogs(appId, templateName): the closure and its interval
simulateBuildLogs(appId, templateName) ==
    [appId |-> appId, templateName |-> templateName, index |-> 0]

\* POST /api/templates/:templateId/deploy
Deploy(templateId, outcome) ==
    /\ IF templateId \notin DOMAIN TEMPLATES
       THEN /\ lastDeploy' = [n |-> lastDeploy.n + 1, upstream |-> Null,
                              status |-> 404]
            /\ UNCHANGED <<buildLogs, sessions, timerQ>>
       ELSE LET app_id == resultAppId(outcome) IN
            IF app_id = "raise"
            THEN /\ lastDeploy' = [n |-> lastDeploy.n + 1,
                                   upstream |-> outcome, status |-> 500]
                 /\ UNCHANGED <<buildLogs, sessions, timerQ>>
            ELSE /\ lastDeploy' = [n |-> lastDeploy.n + 1,
                                   upstream |-> outcome, status |-> 200]
                 /\ IF hasAppId(app_id)
                    THEN /\ buildLogs' = MapSet(buildLogs, app_id, <<StartLine>>)
                         /\ sessions' = Append(sessions,
                               simulateBuildLogs(app_id, TEMPLATES[templateId]))
                         /\ timerQ' = Append(timerQ, Len(sessions) + 1)
                    ELSE UNCHANGED <<buildLogs, sessions, timerQ>>
    /\ UNCHANGED <<logSubscribers, conns, purgeQ, published, purged, route, metrics,
                   streams, crashed>>

\* index++
nextIndex_Skip(index) == index + 2

nextIndex(index) == index + 1

\* The setInterval callback of session s (the timer at the head of its list)
Tick ==
    /\ timerQ # <<>>
    /\ LET s == Head(timerQ)
           appId == sessions[s].appId
           index == sessions[s].index
       IN IF index < Len(messages(sessions[s].templateName))
          THEN LET log == messages(sessions[s].templateName)[index + 1] IN
               /\ buildLogs' = MapSet(buildLogs, appId,
                     Append(IF MapHas(buildLogs, appId)
                            THEN buildLogs[appId] ELSE <<>>, log))
               /\ conns' = broadcastLogs(logSubscribers, conns, appId, log)
               /\ published' = [published EXCEPT ![appId] = Append(@, log)]
               /\ sessions' = [sessions EXCEPT ![s].index = nextIndex(index)]
               /\ timerQ' = Append(Tail(timerQ), s)
               /\ UNCHANGED purgeQ
          ELSE /\ timerQ' = Tail(timerQ)
               /\ purgeQ' = Append(purgeQ,
                                   [appId |-> appId, after |-> Len(sessions)])
               /\ UNCHANGED <<buildLogs, conns, published, sessions>>
    /\ UNCHANGED <<logSubscribers, purged, lastDeploy, route, metrics, streams,
                   crashed>>

\* A session lives (NumMessages + 1) ticks, far less than the retention:
\* when a purge fires, every interval still armed was created after the
\* purge was scheduled.
PurgeDue(p) ==
    RetentionMs > (NumMessages + 1) * TickMs
        => \A i \in 1..Len(timerQ) : timerQ[i] > p.after

\* setTimeout(() => buildLogs.delete(appId), 3600000)
Purge ==
    /\ purgeQ # <<>>
    /\ PurgeDue(Head(purgeQ))
    /\ buildLogs' = MapDelete(buildLogs, Head(purgeQ).appId)
    /\ purgeQ' = Tail(purgeQ)
    /\ purged' = purged \cup {Head(purgeQ).appId}
    /\ UNCHANGED <<logSubscribers, conns, sessions, timerQ, published,
                   lastDeploy, route, metrics, streams,
                   crashed>>

----------------------------------------------------------------------------
(* Routing Resolver *)

\* Strings that the resolver takes apart are sequences of characters.
Dot == <<".">>
SchemeSep == <<":", "/", "/">>
Www == <<"w", "w", "w">>
Dashboard == <<"d", "a", "s", "h", "b", "o", "a", "r", "d">>
Platform == <<"p", "l", "a", "t", "f", "o", "r", "m">>
Domain == <<".", "x", ".", "i", "o">>
Port == <<":", "8">>                \* the port part of a Host header

\* String.prototype.split(sep) for a non-empty separator
RECURSIVE FindSep(_, _, _)
FindSep(str, sep, i) ==
    IF i + Len(sep) - 1 > Len(str) THEN 0
    ELSE IF SubSeq(str, i, i + Len(sep) - 1) = sep THEN i
    ELSE FindSep(str, sep, i + 1)

RECURSIVE split(_, _)
split(str, sep) ==
    LET i == FindSep(str, sep, 1) IN
    IF i = 0 THEN <<str>>
    ELSE <<SubSeq(str, 1, i - 1)>> \o split(SubSeq(str, i + Len(sep), Len(str)), sep)

\* app.url.split('://')[1]?.split('.')[0]; "throw" when app.url is undefined
appSubdomainOf(app) ==
    IF "url" \notin DOMAIN app THEN [kind |-> "throw", value |-> <<>>]
    ELSE LET parts == split(app.url, SchemeSep) IN
         IF Len(parts) < 2 THEN [kind |-> "undefined", value |-> <<>>]
         ELSE [kind |-> "string", value |-> split(parts[2], Dot)[1]]

\* apps.find(app => appSubdomain === subdomain): the position of the first
\* match, 0 for undefined, -1 when the callback throws
RECURSIVE findFrom(_, _, _)
findFrom(apps, subdomain, i) ==
    IF i > Len(apps) THEN 0
    ELSE LET sub == appSubdomainOf(apps[i]) IN
         IF sub.kind = "throw" THEN -1
         ELSE IF sub.kind = "string" /\ sub.value = subdomain THEN i
         ELSE findFrom(apps, subdomain, i + 1)
find(apps, subdomain) == findFrom(apps, subdomain, 1)

\* targetApp.status === 'running'
isRunning_AnyStatus(targetApp) == TRUE

isRunning(targetApp) == targetApp.status = "running"

\* target: `http://${targetApp.container_id}:${targetApp.port}`
proxyTarget(targetApp) ==
    [container_id |-> targetApp.container_id, port |-> targetApp.port]
NoTarget == [container_id |-> "", port |-> 0]

\* subdomain && subdomain !== 'www' && ... !== 'dashboard' && ... !== 'platform'
isAppSubdomain(subdomain) ==
    subdomain # <<>> /\ subdomain \notin {Www, Dashboard, Platform}

\* The middleware mounted on '/apps/*'.  registry is what GET /api/apps does:
\* kind "list" (a JSON array, in apps), "unreachable" (fetch rejects),
\* "notJson" (json() rejects) or "notArray" (apps.find is not a function).
\* The result says how the request left the middleware: "forward" (handed to
\* the proxy for target), "next" (next() called) or "rejected" (the async
\* function threw outside its try block and nothing answers the request).
resolver(headers, registry) ==
    IF ~MapHas(headers, "host")
    THEN [outcome |-> "rejected", target |-> NoTarget, lookup |-> FALSE]
    ELSE LET subdomain == split(headers["host"], Dot)[1] IN
         IF ~isAppSubdomain(subdomain)
         THEN [outcome |-> "next", target |-> NoTarget, lookup |-> FALSE]
         ELSE IF registry.kind # "list"
         THEN [outcome |-> "next", target |-> NoTarget, lookup |-> TRUE]
         ELSE LET t == find(registry.apps, subdomain) IN
              IF t > 0 /\ isRunning(registry.apps[t])
              THEN [outcome |-> "forward",
                    target |-> proxyTarget(registry.apps[t]), lookup |-> TRUE]
              ELSE [outcome |-> "next", target |-> NoTarget, lookup |-> TRUE]

\* app.use('/apps/*', ...): the mount path matches /apps/<anything>
mountMatches(path) == Len(path) >= 2 /\ path[1] = "apps"

\* A request waiting to be dispatched, and the same request once dispatched
NotDispatched == [outcome |-> "pending", target |-> NoTarget, lookup |-> FALSE]
NotEntered == [outcome |-> "skipped", target |-> NoTarget, lookup |-> FALSE]
Incoming(method, headers, path, registry) ==
    [method |-> method, headers |-> headers, path |-> path,
     registry |-> registry, entered |-> FALSE, handler |-> "pending",
     result |-> NotDispatched]

\* express.static(public): the directory holds index.html, served for GET /
StaticPaths == {<<>>}
serveStatic(method, path) == method = "GET" /\ path \in StaticPaths

\* app.use('/api', createProxyMiddleware({target: PLATFORM_API_URL, ...})):
\* the proxy takes every request under /api and answers it from the
\* platform API; it does not call next()
apiProxyMatches(path) == Len(path) >= 1 /\ path[1] = "api"

\* The route paths of the handlers registered after the resolver
MetricsPath == <<"api", "system", "metrics">>
isBuildLogsPath(path) ==
    Len(path) = 4 /\ path[1] = "api" /\ path[2] = "builds" /\ path[4] = "logs"
isDeployPath(path) ==
    Len(path) = 4 /\ path[1] = "api" /\ path[2] = "templates" /\ path[4] = "deploy"
BackupPath == <<"api", "backup">>
isDashboardPath(path) == path = <<>> \/ (Len(path) >= 1 /\ path[1] = "dashboard")
TemplatesPath == <<"api", "templates">>

\* The handlers registered after the resolver, in the order of registration:
\* the first whose method and path match answers the request
laterHandler(method, path) ==
    IF method = "GET" /\ path = MetricsPath THEN "metrics"
    ELSE IF method = "GET" /\ isBuildLogsPath(path) THEN "buildLogsStream"
    ELSE IF method = "POST" /\ isDeployPath(path) THEN "deploy"
    ELSE IF method = "POST" /\ path = BackupPath THEN "backup"
    ELSE IF method = "GET" /\ isDashboardPath(path) THEN "dashboard"
    ELSE IF method = "GET" /\ path = TemplatesPath THEN "templates"
    ELSE IF method = "GET" THEN "catchAll"
    ELSE "notFound"

\* The middleware chain of the express app on a 'request' event: which stage
\* answers the request, whether the resolver was entered and how it was left
dispatch(method, headers, path, registry) ==
    IF serveStatic(method, path)
    THEN [handler |-> "static", entered |-> FALSE, result |-> NotEntered]
    ELSE IF apiProxyMatches(path)
    THEN [handler |-> "apiProxy", entered |-> FALSE, result |-> NotEntered]
    ELSE IF mountMatches(path)
    THEN LET r == resolver(headers, registry) IN
         [handler |-> CASE r.outcome = "forward" -> "appProxy"
                        [] r.outcome = "rejected" -> "none"
                        [] OTHER -> laterHandler(method, path),
          entered |-> TRUE, result |-> r]
    ELSE [handler |-> laterHandler(method, path), entered |-> FALSE,
          result |-> NotEntered]

\* server.on('upgrade'): the pathname decides, the hostname is not looked at
WsLogsPath == <<"ws", "logs">>
upgradeHandler(pathname) ==
    IF pathname = WsLogsPath THEN "logHub" ELSE "socketDestroyed"

\* A request arrives at the server.  A request with an Upgrade header is
\* emitted as 'upgrade' and never reaches the express app; any other request
\* runs through the middleware chain.  path is the list of its path
\* segments, registry the answer GET /api/apps gives while it is served.
Request ==
    /\ route.handler = "pending"
    /\ route' =
          IF MapHas(route.headers, "upgrade")
          THEN [route EXCEPT !.handler = upgradeHandler(route.path),
                             !.result = NotEntered]
          ELSE LET d == dispatch(route.method, route.headers, route.path,
                                 route.registry) IN
               [route EXCEPT !.handler = d.handler, !.entered = d.entered,
                             !.result = d.result]
    /\ UNCHANGED <<logSubscribers, buildLogs, conns, sessions, timerQ, purgeQ,
                   published, purged, lastDeploy, metrics, streams,
                   crashed>>

----------------------------------------------------------------------------
(* Build log stream: GET /api/builds/:buildId/logs *)

\* clearInterval(interval): the timer is no longer armed
clearInterval_Noop(interval) == interval

clearInterval(interval) == FALSE

\* The handler: headers, the initial write when buildLogs has buildId, then
\* setInterval(..., 1000) and req.on('close', ...).  frames counts the
\* res.write calls made for the stream.
OpenStream(buildId) ==
    /\ streams' = Append(streams,
          [buildId |-> buildId,
           frames |-> IF MapHas(buildLogs, buildId) THEN 1 ELSE 0,
           interval |-> TRUE, closed |-> FALSE])
    /\ UNCHANGED <<logSubscribers, buildLogs, conns, sessions, timerQ, purgeQ,
                   published, purged, lastDeploy, route, metrics, crashed>>

\* The setInterval callback of stream s
StreamTick(s) ==
    /\ s \in 1..Len(streams)
    /\ streams[s].interval
    /\ streams' = IF MapHas(buildLogs, streams[s].buildId)
                  THEN [streams EXCEPT ![s].frames = @ + 1]
                  ELSE streams
    /\ UNCHANGED <<logSubscribers, buildLogs, conns, sessions, timerQ, purgeQ,
                   published, purged, lastDeploy, route, metrics, crashed>>

\* req.on('close', () => clearInterval(interval))
CloseStream(s) ==
    /\ s \in 1..Len(streams)
    /\ ~streams[s].closed
    /\ streams' = [streams EXCEPT ![s].closed = TRUE,
                                  ![s].interval = clearInterval(@)]
    /\ UNCHANGED <<logSubscribers, buildLogs, conns, sessions, timerQ, purgeQ,
                   published, purged, lastDeploy, route, metrics, crashed>>

----------------------------------------------------------------------------
(* Metrics Aggregator *)

\* The container engine behind docker.info() and docker.listContainers():
\* [MemTotal, containers], a container being a record with Names and State
\* and, when the engine reports them, MemoryUsage and NetworkSettings.
MiniCloud == <<"m", "i", "n", "i", "-", "c", "l", "o", "u", "d">>

\* String.prototype.includes
includes(str, sub) == FindSep(str, sub, 1) > 0

\* c.Names.some(name => name.includes('mini-cloud'))
isPlatformContainer(c) ==
    \E k \in 1..Len(c.Names) : includes(c.Names[k], MiniCloud)

\* containers.filter(...)
RECURSIVE filterPlatform(_)
filterPlatform(containers) ==
    IF containers = <<>> THEN <<>>
    ELSE IF isPlatformContainer(Head(containers))
         THEN <<Head(containers)>> \o filterPlatform(Tail(containers))
         ELSE filterPlatform(Tail(containers))

\* c.MemoryUsage || 0, c.NetworkSettings?.NetworkRx || 0, ...NetworkTx || 0
memoryUsageOf(c) == IF "MemoryUsage" \in DOMAIN c THEN c.MemoryUsage ELSE 0
networkRxOf(c) ==
    IF "NetworkSettings" \in DOMAIN c THEN c.NetworkSettings.NetworkRx ELSE 0
networkTxOf(c) ==
    IF "NetworkSettings" \in DOMAIN c THEN c.NetworkSettings.NetworkTx ELSE 0

\* platformContainers.reduce((sum, c) => sum + f(c), 0) for the three sums
RECURSIVE reduceSum(_, _)
reduceSum(containers, field) ==
    IF containers = <<>> THEN 0
    ELSE (CASE field = "memory" -> memoryUsageOf(Head(containers))
            [] field = "rx" -> networkRxOf(Head(containers))
            [] field = "tx" -> networkTxOf(Head(containers)))
         + reduceSum(Tail(containers), field)

\* Math.round of the non-negative quotient num / den (halves round up)
roundDiv(num, den) == (2 * num + den) \div (2 * den)

\* totalMemory > 0 ? Math.round((usedMemory / totalMemory) * 100) : 0
memoryPercent_Floor(usedMemory, totalMemory) ==
    IF totalMemory > 0 THEN (usedMemory * 100) \div totalMemory ELSE 0

memoryPercent(usedMemory, totalMemory) ==
    IF totalMemory > 0 THEN roundDiv(usedMemory * 100, totalMemory) ELSE 0

\* What docker.info() answers for an engine: the counters cover every
\* container of the engine
dockerInfoOf(engine) ==
    [ServerVersion |-> "v", MemTotal |-> engine.MemTotal, NCPU |-> engine.NCPU,
     Containers |-> Len(engine.containers),
     ContainersRunning |->
        Cardinality({i \in 1..Len(engine.containers) :
                        engine.containers[i].State = "running"}),
     ContainersStopped |->
        Cardinality({i \in 1..Len(engine.containers) :
                        engine.containers[i].State # "running"})]

\* The output of a host command: fails (execPromise rejects), or prints a
\* number (cpu: value in tenths; disk: value percent), or prints no number
\* (numeric FALSE: parseFloat / parseInt give NaN).
\* A text is [text, value]: "N/A", or the number printed followed by "%".
NoOutput == [fails |-> FALSE, numeric |-> FALSE, value |-> 0]
Failing == [fails |-> TRUE, numeric |-> FALSE, value |-> 0]
Printing(n) == [fails |-> FALSE, numeric |-> TRUE, value |-> n]
DefaultStats ==
    [cpuLoad |-> 0,
     disk |-> [usage |-> 0, human |-> [text |-> "N/A", value |-> 0]]]

\* async function getSystemStats(): both commands inside one try block
getSystemStats(cpu, disk) ==
    IF cpu.fails \/ disk.fails THEN DefaultStats
    ELSE [cpuLoad |-> IF cpu.numeric THEN roundDiv(cpu.value, 10) ELSE 0,
          disk |-> [usage |-> IF disk.numeric THEN disk.value ELSE 0,
                    human |-> IF disk.numeric
                              THEN [text |-> "%", value |-> disk.value]
                              ELSE [text |-> "", value |-> 0]]]

\* The body passed to res.json() at line 165
systemSnapshot(dockerInfo, containers, systemStats) ==
    LET platformContainers == filterPlatform(containers)
        totalMemory == dockerInfo.MemTotal
        usedMemory == reduceSum(platformContainers, "memory")
        totalCpu == dockerInfo.NCPU
    IN [docker |-> [version |-> dockerInfo.ServerVersion,
                    containers |-> dockerInfo.Containers,
                    running |-> dockerInfo.ContainersRunning,
                    stopped |-> dockerInfo.ContainersStopped],
        resources |->
           [memory |-> [total |-> totalMemory, used |-> usedMemory,
                        percent |-> memoryPercent(usedMemory, totalMemory)],
            cpu |-> [cores |-> totalCpu, load |-> systemStats.cpuLoad],
            disk |-> systemStats.disk],
        network |-> [totalRx |-> reduceSum(platformContainers, "rx"),
                     totalTx |-> reduceSum(platformContainers, "tx")]]

ErrorBody == [error |-> "Failed to get system metrics"]

\* app.get('/api/system/metrics'): Promise.all inside try, the catch block
\* answers 500.  fails says which of docker.info() and
\* docker.listContainers() rejects.
metricsHandler(engine, fails, cpu, disk) ==
    IF fails.info \/ fails.list
    THEN [status |-> 500, body |-> ErrorBody]
    ELSE [status |-> 200,
          body |-> systemSnapshot(dockerInfoOf(engine), engine.containers,
                                  getSystemStats(cpu, disk))]

NoResponse == [status |-> 0, body |-> ErrorBody]
NoMetrics ==
    [engine |-> [MemTotal |-> 0, NCPU |-> 0, containers |-> <<>>],
     fails |-> [info |-> FALSE, list |-> FALSE],
     cpu |-> NoOutput,
     disk |-> NoOutput,
     response |-> [status |-> -1, body |-> ErrorBody]]

\* The metrics handler answers the waiting request
MetricsRequest ==
    /\ metrics.response = NoResponse
    /\ metrics' = [metrics EXCEPT !.response =
                      metricsHandler(metrics.engine, metrics.fails,
                                     metrics.cpu, metrics.disk)]
    /\ UNCHANGED <<logSubscribers, buildLogs, conns, sessions, timerQ, purgeQ,
                   published, purged, lastDeploy, route, streams, crashed>>

----------------------------------------------------------------------------
(* Specifications *)

NoRequest ==
    [method |-> "GET", headers |-> EmptyMap, path |-> <<>>,
     registry |-> [kind |-> "unreachable", apps |-> <<>>],
     entered |-> FALSE, handler |-> "idle",
     result |-> [outcome |-> "idle", target |-> NoTarget, lookup |-> FALSE]]

InitHub ==
    /\ logSubscribers = EmptyMap
    /\ buildLogs = EmptyMap
    /\ conns = <<>>
    /\ sessions = <<>>
    /\ timerQ = <<>>
    /\ purgeQ = <<>>
    /\ published = [s \in Subjects \cup {Null} |-> <<>>]
    /\ purged = {}
    /\ lastDeploy = [n |-> 0, upstream |-> Null, status |-> 0]
    /\ streams = <<>>
    /\ crashed = FALSE

Init ==
    /\ InitHub
    /\ route = NoRequest
    /\ metrics = NoMetrics

HubAppIds == {"a"}
HubBuildIds == {"a", Null}

\* The Log Hub: one deployment, up to MaxConns connections
NextHub ==
    \/ /\ Len(conns) < MaxConns
       /\ \E appId \in Subjects, buildId \in HubBuildIds :
             Connect(appId, buildId)
    \/ \E ws \in 1..Len(conns) : BeginClose(ws)
    \/ \E ws \in 1..Len(conns) : EmitClose(ws)
    \/ /\ sessions = <<>>
       /\ \E o \in HubAppIds : Deploy("static-site", o)
    \/ Tick
    \/ Purge

SpecHub == Init /\ [][NextHub]_vars

\* The Deployment Tracker alone: up to MaxDeploys requests, every template
\* id and every answer of the upstream API
TrackTemplateIds == {"static-site", "wordpress", "no-such-template"}

NextTrack ==
    \/ /\ lastDeploy.n < MaxDeploys
       /\ \E t \in TrackTemplateIds, o \in UpstreamOutcomes : Deploy(t, o)
    \/ Tick
    \/ Purge

SpecTrack == Init /\ [][NextTrack]_vars

FanAppIds == {"a"}
FanBuildIds == {"a", Null}

\* One subscriber of subject "a" watching up to MaxDeploys sessions, each on
\* either subject
NextFan ==
    \/ /\ conns = <<>>
       /\ \E appId \in FanAppIds, buildId \in FanBuildIds :
             Connect(appId, buildId)
    \/ \E ws \in 1..Len(conns) : BeginClose(ws)
    \/ \E ws \in 1..Len(conns) : EmitClose(ws)
    \/ /\ lastDeploy.n < MaxDeploys
       /\ \E o \in Subjects : Deploy("static-site", o)
    \/ Tick
    \/ Purge

SpecFan == Init /\ [][NextFan]_vars

\* The Routing Resolver on every request and every registry answer drawn
\* from small sets
A1 == <<"a", "1">>
A2 == <<"a", "2">>
ReqHosts ==
    {A1 \o Domain, A2 \o Domain, Www \o Domain, Dashboard \o Domain,
     Platform \o Domain, Domain, <<>>, A1, Dashboard \o Port}
ReqHeaders == {[h \in {"host"} |-> host] : host \in ReqHosts} \cup {EmptyMap}
UpgradeHeaders ==
    {[h \in {"host", "upgrade"} |-> IF h = "host" THEN host ELSE <<"w", "s">>] :
        host \in {A1 \o Domain, Www \o Domain}}
ReqMethods == {"GET", "POST"}
ReqPaths == {<<"apps", "shop">>, <<"about">>, <<>>, MetricsPath, WsLogsPath}
AppUrls ==
    {<<"h">> \o SchemeSep \o A1 \o Domain, <<"h">> \o SchemeSep \o A2 \o Domain,
     A1 \o Domain}
AppRecords ==
    {[url |-> u, status |-> st, container_id |-> c, port |-> 80] :
        u \in AppUrls, st \in {"running", "stopped"}, c \in {"c1", "c2"}}
    \cup {[status |-> "running", container_id |-> "c1", port |-> 80]}
AppLists == UNION {[1..k -> AppRecords] : k \in 0..MaxApps}
Registries ==
    {[kind |-> "list", apps |-> l] : l \in AppLists}
    \cup {[kind |-> k, apps |-> <<>>] : k \in {"unreachable", "notJson", "notArray"}}

InitRoute ==
    /\ InitHub
    /\ metrics = NoMetrics
    /\ \E path \in ReqPaths, registry \in Registries :
          \/ \E method \in ReqMethods, headers \in ReqHeaders :
                route = Incoming(method, headers, path, registry)
          \/ \E headers \in UpgradeHeaders :
                route = Incoming("GET", headers, path, registry)

NextRoute == Request

SpecRoute == InitRoute /\ [][NextRoute]_vars

FailAppIds == {"a", Null}

\* Connections that fail or close around one deployment; a process that
\* has crashed takes no further step
NextFail ==
    \/ /\ ~crashed /\ Len(conns) < MaxConns
       /\ \E appId \in FailAppIds : Connect(appId, Null)
    \/ ~crashed /\ \E ws \in 1..Len(conns) : ConnectionFails(ws)
    \/ ~crashed /\ \E ws \in 1..Len(conns) : EmitError(ws)
    \/ ~crashed /\ \E ws \in 1..Len(conns) : BeginClose(ws)
    \/ ~crashed /\ \E ws \in 1..Len(conns) : EmitClose(ws)
    \/ /\ ~crashed /\ sessions = <<>>
       /\ Deploy("static-site", "a")
    \/ ~crashed /\ Tick
    \/ ~crashed /\ Purge

SpecFail == Init /\ [][NextFail]_vars

\* Subscribers of subject "a" that registered before its deployment and
\* fail, error and close while the session publishes
NextClose ==
    \/ /\ Len(conns) < MaxConns /\ sessions = <<>>
       /\ Connect("a", Null)
    \/ \E ws \in 1..Len(conns) : ConnectionFails(ws)
    \/ \E ws \in 1..Len(conns) : EmitError(ws)
    \/ \E ws \in 1..Len(conns) : BeginClose(ws)
    \/ \E ws \in 1..Len(conns) : EmitClose(ws)
    \/ /\ sessions = <<>>
       /\ Deploy("static-site", "a")
    \/ Tick

\* The scheduling the ws library guarantees: a socket that has left OPEN is
\* destroyed at the latest when its close timer runs out, and its 'close'
\* event is then emitted
FairClose == \A ws \in 1..MaxConns : WF_vars(EmitClose(ws))

SpecClose == Init /\ [][NextClose]_vars /\ FairClose

CancelAppIds == {"a", Null}
StreamBuildIds == {"a"}

\* Clients that come and go around one deployment, before its first tick:
\* up to MaxConns connections on /ws/logs and up to MaxStreams build log
\* streams, each stream written at most MaxFrames times
NextCancel ==
    \/ /\ Len(conns) < MaxConns
       /\ \E appId \in CancelAppIds : Connect(appId, Null)
    \/ \E ws \in 1..Len(conns) : BeginClose(ws)
    \/ \E ws \in 1..Len(conns) : EmitClose(ws)
    \/ /\ sessions = <<>>
       /\ Deploy("static-site", "a")
    \/ /\ Len(streams) < MaxStreams
       /\ \E buildId \in StreamBuildIds : OpenStream(buildId)
    \/ \E s \in 1..Len(streams) : streams[s].frames < MaxFrames /\ StreamTick(s)
    \/ \E s \in 1..Len(streams) : CloseStream(s)

SpecCancel == Init /\ [][NextCancel]_vars

\* The Metrics Aggregator on every engine of up to MaxContainers containers
\* and every outcome of the four sub-queries.  The memory the containers of
\* an engine use does not exceed the memory the engine reports, unless it
\* reports none.
WebName == <<"/">> \o MiniCloud \o <<"-", "w">>
DbName == <<"/", "d", "b">>
ContainerKinds ==
    {[Names |-> <<WebName>>, State |-> "running", MemoryUsage |-> 2,
      NetworkSettings |-> [NetworkRx |-> 1, NetworkTx |-> 2]],
     [Names |-> <<DbName, WebName>>, State |-> "exited", MemoryUsage |-> 1],
     [Names |-> <<WebName>>, State |-> "running"],
     [Names |-> <<DbName>>, State |-> "running", MemoryUsage |-> 1,
      NetworkSettings |-> [NetworkRx |-> 4, NetworkTx |-> 1]],
     [Names |-> <<DbName>>, State |-> "exited"]}
ContainerLists == UNION {[1..k -> ContainerKinds] : k \in 0..MaxContainers}
RECURSIVE memoryOfAll(_)
memoryOfAll(containers) ==
    IF containers = <<>> THEN 0
    ELSE memoryUsageOf(Head(containers)) + memoryOfAll(Tail(containers))
Engines ==
    {e \in [MemTotal : {0, 3, 8}, NCPU : {2}, containers : ContainerLists] :
        e.MemTotal = 0 \/ memoryOfAll(e.containers) <= e.MemTotal}
CpuOutputs == {Failing, NoOutput, Printing(375)}
DiskOutputs == {Failing, NoOutput, Printing(42)}

InitMetrics ==
    /\ InitHub
    /\ route = NoRequest
    /\ \E engine \in Engines, fi \in BOOLEAN, fl \in BOOLEAN,
          cpu \in CpuOutputs, disk \in DiskOutputs :
          metrics = [engine |-> engine, fails |-> [info |-> fi, list |-> fl],
                     cpu |-> cpu, disk |-> disk, response |-> NoResponse]

NextMetrics == MetricsRequest

SpecMetrics == InitMetrics /\ [][NextMetrics]_vars

----------------------------------------------------------------------------
(* Properties of the Log Hub *)

Range(seq) == {seq[i] : i \in 1..Len(seq)}

\* ws is in the subscriber list kept under subject S
Registered(S, ws) == MapHas(logSubscribers, S) /\ ws \in Range(logSubscribers[S])

\* The step passes a line to broadcastLogs(S, ...)
PublishStep(S) == published'[S] # published[S]

\* The step writes exactly the line just published to S to ws, as a broadcast
Delivered(S, ws) ==
    conns'[ws] = [conns[ws] EXCEPT
                    !.received = Append(@, LiveMsg(S, published'[S][Len(published'[S])]))]

\* The lines a socket was sent by broadcasts, in the order of the frames
RECURSIVE liveLines(_)
liveLines(received) ==
    IF received = <<>> THEN <<>>
    ELSE IF Head(received).timestamp
         THEN Head(received).data \o liveLines(Tail(received))
         ELSE liveLines(Tail(received))

\* C1 as claimed: a publish to S sends the line to exactly the connections
\* registered under S at the moment of the call, and to no other connection.
C1_Original ==
    [][\A S \in Subjects : PublishStep(S) =>
          \A ws \in 1..Len(conns) :
             IF Registered(S, ws) THEN Delivered(S, ws)
             ELSE conns'[ws] = conns[ws]]_vars

\* C1 amended: a publish to S sends the line, once, to exactly the connections
\* that are registered under S and whose readyState is OPEN at the moment of
\* the call; every other connection (registered under another subject, or
\* registered under S but not open) is sent nothing.
C1_PublishToOpenSubscribers ==
    [][\A S \in Subjects : PublishStep(S) =>
          \A ws \in 1..Len(conns) :
             IF Registered(S, ws) /\ conns[ws].readyState = OPEN
             THEN Delivered(S, ws)
             ELSE conns'[ws] = conns[ws]]_vars

\* A publish reached an open subscriber of its subject while it skipped a
\* subscriber of the same subject that was registered earlier but is closing.
C1_Witness ==
    \E w1, w2 \in 1..Len(conns) :
       /\ w1 < w2
       /\ Registered("a", w1) /\ Registered("a", w2)
       /\ conns[w1].readyState = CLOSING /\ conns[w2].readyState = OPEN
       /\ Len(liveLines(conns[w1].received)) < Len(liveLines(conns[w2].received))

\* C2: once the close handler of a connection has run, no step sends anything
\* to it, and running the handler again for it leaves the subscriber list of
\* every subject as it is.
C2_UnsubscribeIdempotent ==
    [][\A ws \in 1..Len(conns) : conns[ws].readyState = CLOSED =>
          /\ conns'[ws].received = conns[ws].received
          /\ closeHandler(logSubscribers', conns[ws].appId, ws) = logSubscribers']_vars

\* A connection was unsubscribed from a subject that still has another
\* subscriber, and lines were published to that subject afterwards.
C2_Witness ==
    \E ws \in 1..Len(conns) :
       /\ conns[ws].readyState = CLOSED
       /\ MapHas(logSubscribers, conns[ws].appId)
       /\ logSubscribers[conns[ws].appId] # <<>>
       /\ Len(published[conns[ws].appId]) > conns[ws].closedAt + 1

\* C3 as claimed: no connection registered under T is sent, by broadcast or by
\* replay, a line that was published to a subject other than T.
C3_SubjectsPartitionTraffic ==
    \A ws \in 1..Len(conns) : \A i \in 1..Len(conns[ws].received) :
       LET m == conns[ws].received[i] IN
       m.key # conns[ws].appId => Range(m.data) \cap Range(published[m.key]) = {}

\* C4: at registration the buffer kept under buildId, when there is one, is
\* sent as the first and only frame, and nothing is sent when there is none;
\* every frame written later is a broadcast, so the replay is sent once and
\* precedes every broadcast.
C4_ReplayOnceAtRegistration ==
    [][/\ Len(conns') > Len(conns) /\ conns'[Len(conns')].appId # Null =>
            LET ws == Len(conns')
                buildId == conns'[ws].buildId IN
            conns'[ws].received =
               IF MapHas(buildLogs, buildId)
               THEN <<ReplayMsg(buildId, buildLogs[buildId])>>
               ELSE <<>>
       /\ \A ws \in 1..Len(conns) :
            \/ conns'[ws].received = conns[ws].received
            \/ conns'[ws].received = <<>>
            \/ /\ Len(conns'[ws].received) = Len(conns[ws].received) + 1
               /\ SubSeq(conns'[ws].received, 1, Len(conns[ws].received))
                     = conns[ws].received
               /\ conns'[ws].received[Len(conns'[ws].received)].timestamp]_vars

\* A connection got the replay of a buffer with several lines first and a
\* broadcast after it, while another connection registered with no buffer
\* under its buildId got no replay.
C4_Witness ==
    \E w1, w2 \in 1..Len(conns) :
       /\ Len(conns[w1].received) >= 2
       /\ ~conns[w1].received[1].timestamp
       /\ Len(conns[w1].received[1].data) >= 2
       /\ conns[w1].received[2].timestamp
       /\ conns[w2].buildId = Null
       /\ conns[w2].received # <<>>
       /\ conns[w2].received[1].timestamp

\* C5: within one subject every subscriber is sent the lines in the order of
\* their publication: the lines a connection has been sent by broadcast are a
\* run of consecutive publishes to its subject, and for a connection that is
\* still open they are all the publishes since it subscribed, up to the last.
C5_FifoPerSubject ==
    \A ws \in 1..Len(conns) :
       (conns[ws].appId # Null /\ conns[ws].readyState # CLOSED) =>
          LET lv == liveLines(conns[ws].received)
              pub == published[conns[ws].appId]
          IN /\ Len(lv) <= Len(pub)
             /\ IF conns[ws].readyState = OPEN
                THEN lv = SubSeq(pub, Len(pub) - Len(lv) + 1, Len(pub))
                ELSE \E k \in 0..(Len(pub) - Len(lv)) :
                        lv = SubSeq(pub, k + 1, k + Len(lv))

\* An open subscriber has been sent the interleaved lines of two sessions
\* that publish to its subject.
C5_Witness ==
    \E ws \in 1..Len(conns) :
       /\ conns[ws].readyState = OPEN
       /\ \E s1, s2 \in 1..Len(sessions) :
             /\ s1 # s2
             /\ sessions[s1].appId = conns[ws].appId
             /\ sessions[s2].appId = conns[ws].appId
             /\ sessions[s1].index >= 2 /\ sessions[s2].index >= 2
       /\ Len(liveLines(conns[ws].received)) >= 4
       /\ liveLines(conns[ws].received)[1] = liveLines(conns[ws].received)[2]

----------------------------------------------------------------------------
(* Properties of the Deployment Tracker *)

\* The states of a BuildSession, by the closure's index (0-based in the code)
SessionState(index) ==
    CASE index = 0 -> "Pending"
      [] index = 1 -> "Cloning"
      [] index = 2 -> "InstallingDeps"
      [] index = 3 -> "BuildingImage"
      [] index = 4 -> "StartingContainer"
      [] OTHER -> "Complete"

\* The line that announces a state of the BuildSession
StateLine(state) ==
    CASE state = "Cloning" -> "Cloning template..."
      [] state = "InstallingDeps" -> "Installing dependencies..."
      [] state = "BuildingImage" -> "Building Docker image..."
      [] state = "StartingContainer" -> "Starting container..."
      [] state = "Complete" -> "Deployment complete!"
      [] OTHER -> "none"

Advanced(s) == sessions'[s].index # sessions[s].index

\* C6: a BuildSession starts in Pending and its state only ever moves to the
\* next state of the fixed order, one state per tick of its timer; each move
\* publishes exactly one line, the one announcing the state entered, to the
\* session's subject, and nothing else is published; the session is Complete
\* after 5 moves, and only then does its timer stop.
C6_SessionStateMachine ==
    [][/\ \A s \in 1..Len(sessions) :
             /\ sessions'[s].appId = sessions[s].appId
             /\ sessions'[s].index \in {sessions[s].index, sessions[s].index + 1}
             /\ sessions'[s].index <= NumMessages
             /\ Advanced(s) =>
                  /\ s = Head(timerQ)
                  /\ \A s2 \in 1..Len(sessions) : Advanced(s2) => s2 = s
                  /\ \E line \in Range(messages(sessions[s].templateName)) :
                        /\ line[1] = StateLine(SessionState(sessions'[s].index))
                        /\ published' = [published EXCEPT
                                           ![sessions[s].appId] = Append(@, line)]
       /\ \A s \in (Len(sessions) + 1)..Len(sessions') :
             SessionState(sessions'[s].index) = "Pending"
       /\ published' # published => \E s \in 1..Len(sessions) : Advanced(s)
       /\ Len(timerQ') < Len(timerQ) =>
             /\ sessions[Head(timerQ)].index = NumMessages
             /\ SessionState(sessions[Head(timerQ)].index) = "Complete"]_vars

\* A session has reached Complete, its five lines are the lines published to
\* its subject, and its timer has stopped.
C6_Witness ==
    \E s \in 1..Len(sessions) :
       /\ SessionState(sessions[s].index) = "Complete"
       /\ published[sessions[s].appId] = messages(sessions[s].templateName)
       /\ s \notin Range(timerQ)

\* C7 as claimed: once the purge has run for a subject, no further line is
\* published to that subject and its buffer is not created again.
C7_NothingAfterPurge ==
    [][\A S \in purged :
          /\ published'[S] = published[S]
          /\ ~MapHas(buildLogs, S) => ~MapHas(buildLogs', S)]_vars

\* C8 as claimed: an open connection that subscribed to the subject of a
\* session before the session's first tick has been sent by broadcast, once
\* the session is Complete, exactly the five lines of the session in order,
\* and nothing after them.
C8_FiveLinesEndToEnd ==
    \A ws \in 1..Len(conns) :
       conns[ws].readyState = OPEN =>
          \A s \in conns[ws].early :
             sessions[s].index = NumMessages =>
                liveLines(conns[ws].received) = messages(sessions[s].templateName)

\* C9: a deploy request whose upstream call fails (fetch rejects, the body is
\* not JSON, is null, or is an error object without app_id) creates no
\* buffer, starts no timer and session, and publishes nothing.
C9_FailedDeployStartsNothing ==
    [][(lastDeploy'.n # lastDeploy.n /\ lastDeploy'.upstream \in UpstreamFailures)
          => UNCHANGED <<buildLogs, sessions, timerQ, purgeQ, published,
                         conns, logSubscribers>>]_vars

\* A deploy request whose upstream call failed was answered while an earlier
\* session is running; no second session exists.
C9_Witness ==
    /\ lastDeploy.upstream \in UpstreamFailures
    /\ lastDeploy.n = 2
    /\ Len(sessions) = 1
    /\ timerQ = <<1>>
    /\ sessions[1].index >= 1

----------------------------------------------------------------------------
(* Properties of the Routing Resolver *)

\* The leftmost label of a dotted name: what precedes its first dot
LeftLabel(str) ==
    LET dots == {i \in 1..Len(str) : str[i] = "."} IN
    IF dots = {} THEN str
    ELSE SubSeq(str, 1, (CHOOSE i \in dots : \A j \in dots : i <= j) - 1)

\* The hostname of an AppRecord: what follows the scheme of its url
SchemeEnds(url) == {i \in 1..(Len(url) - 2) : SubSeq(url, i, i + 2) = SchemeSep}
HasHostname(app) == "url" \in DOMAIN app /\ SchemeEnds(app.url) # {}
HostnameOf(app) ==
    SubSeq(app.url,
           (CHOOSE i \in SchemeEnds(app.url) :
               \A j \in SchemeEnds(app.url) : i <= j) + 3,
           Len(app.url))

\* The records of the list whose hostname has leftmost label L
Matching(apps, L) ==
    {i \in 1..Len(apps) : HasHostname(apps[i]) /\ LeftLabel(HostnameOf(apps[i])) = L}

Backend(app) == [container_id |-> app.container_id, port |-> app.port]

\* The request entered the resolver with a hostname whose leftmost label is
\* not reserved and not empty, and the registry returned a list of records
\* that all carry a url
ResolvedAgainstList ==
    /\ route.entered
    /\ route.registry.kind = "list"
    /\ \A i \in 1..Len(route.registry.apps) : "url" \in DOMAIN route.registry.apps[i]
    /\ MapHas(route.headers, "host")
    /\ LeftLabel(route.headers["host"]) \notin {<<>>, Www, Dashboard, Platform}

HostName(host) ==
    LET colons == {i \in 1..Len(host) : host[i] = ":"} IN
    IF colons = {} THEN host
    ELSE SubSeq(host, 1, (CHOOSE i \in colons : \A j \in colons : i <= j) - 1)

ReservedLabels == {Www, Dashboard, Platform}

\* C11 as claimed: for a request that enters the resolver and whose hostname
\* has the leftmost label www, dashboard or platform, or an empty one, the
\* resolver makes no call to GET /api/apps and passes the request on.
C11_ReservedNeverLookedUp ==
    (/\ route.entered
     /\ MapHas(route.headers, "host")
     /\ LeftLabel(HostName(route.headers["host"])) \in ReservedLabels \cup {<<>>})
        => /\ ~route.result.lookup
           /\ route.result.outcome = "next"

\* C12 as claimed: every request that enters the resolver leaves it either
\* forwarded to a backend or passed to the next handler, never with an error
\* and never unanswered, whatever the registry answers and whether or not the
\* request carries a usable hostname.
C12_ForwardOrNextAlways ==
    route.entered => route.result.outcome \in {"forward", "next"}

\* The request has been handled (by the chain or by the upgrade listener)
Dispatched == route.handler \notin {"pending", "idle"}

\* The request's hostname is that of a Running app: the registry returns a
\* list of records that all carry a url, and the first record whose hostname
\* has the request's leftmost label has status running
FirstMatch(apps, L) ==
    CHOOSE i \in Matching(apps, L) : \A j \in Matching(apps, L) : i <= j
HostOfRunningApp ==
    /\ MapHas(route.headers, "host")
    /\ LeftLabel(route.headers["host"]) \notin ReservedLabels \cup {<<>>}
    /\ route.registry.kind = "list"
    /\ \A i \in 1..Len(route.registry.apps) : "url" \in DOMAIN route.registry.apps[i]
    /\ Matching(route.registry.apps, LeftLabel(route.headers["host"])) # {}
    /\ route.registry.apps[FirstMatch(route.registry.apps,
                LeftLabel(route.headers["host"]))].status = "running"
RunningBackend ==
    Backend(route.registry.apps[FirstMatch(route.registry.apps,
                LeftLabel(route.headers["host"]))])

\* C13 as claimed: every HTTP request that is not under /api and not for
\* /ws/logs goes through the hostname resolver whatever its path: on the
\* hostname of a Running app it is forwarded to that app's backend and is not
\* answered by a dashboard handler.
C13_AllTrafficRoutedByHostname ==
    (/\ Dispatched
     /\ ~MapHas(route.headers, "upgrade")
     /\ ~apiProxyMatches(route.path)
     /\ route.path # WsLogsPath
     /\ HostOfRunningApp)
        => /\ route.entered
           /\ route.handler = "appProxy"
           /\ route.result.target = RunningBackend

----------------------------------------------------------------------------
(* Properties of the Metrics Aggregator *)

Answered == metrics.response.status > 0

\* The sub-queries of the request that fail
FailedQueries ==
    {q \in {"info", "list", "cpu", "disk"} :
        CASE q = "info" -> metrics.fails.info
          [] q = "list" -> metrics.fails.list
          [] q = "cpu" -> metrics.cpu.fails
          [] q = "disk" -> metrics.disk.fails}

\* C14 as claimed: when one sub-query of a metrics request fails, the request
\* is still answered with a snapshot, and every dimension fed by a sub-query
\* that succeeded holds the value of that sub-query: the cpu load when the
\* cpu command printed, the disk usage when the disk command printed, the
\* engine counters and memory total when docker.info() answered.
C14_DegradesPerDimension ==
    (Answered /\ Cardinality(FailedQueries) = 1) =>
       /\ metrics.response.status = 200
       /\ LET body == metrics.response.body IN
          /\ "cpu" \notin FailedQueries =>
                body.resources.cpu.load =
                   getSystemStats(metrics.cpu, NoOutput).cpuLoad
          /\ "disk" \notin FailedQueries =>
                body.resources.disk = getSystemStats(NoOutput, metrics.disk).disk
          /\ "info" \notin FailedQueries =>
                /\ body.resources.memory.total = metrics.engine.MemTotal
                /\ body.docker.containers = Len(metrics.engine.containers)

\* The aggregates of a snapshot: container count, running count, used
\* memory, network totals
Aggregates(body) ==
    <<body.docker.containers, body.docker.running, body.resources.memory.used,
      body.network.totalRx, body.network.totalTx>>

\* The engine after container i has been removed from it
EngineWithout(engine, i) == [engine EXCEPT !.containers = splice1(@, i)]

\* C15 as claimed: a container whose names do not match the naming
\* convention contributes to no aggregate: the snapshot of an engine and the
\* snapshot of the same engine without one of its non-platform containers
\* have the same container count, running count, used memory and network
\* totals.
C15_NonPlatformExcluded ==
    (Answered /\ metrics.response.status = 200) =>
       \A i \in 1..Len(metrics.engine.containers) :
          ~isPlatformContainer(metrics.engine.containers[i]) =>
             Aggregates(metricsHandler(EngineWithout(metrics.engine, i),
                                       metrics.fails, metrics.cpu,
                                       metrics.disk).body)
                = Aggregates(metrics.response.body)

----------------------------------------------------------------------------
(* Properties of cancellation *)

\* C17: when a client connection closes, its registration is removed and its
\* timer is cancelled: once 'close' has run for a /ws/logs connection it is
\* in no subscriber list, and once 'close' has run for a build log stream
\* its interval is not armed and nothing more is written to the stream.
C17_CloseReleases ==
    [][/\ \A ws \in 1..Len(conns') :
             conns'[ws].readyState = CLOSED =>
                \A S \in DOMAIN logSubscribers' :
                   ws \notin Range(logSubscribers'[S])
       /\ \A s \in 1..Len(streams') :
             streams'[s].closed => ~streams'[s].interval
       /\ \A s \in 1..Len(streams) :
             streams[s].closed => streams'[s] = streams[s]]_vars

\* A connection was closed while a later connection stays registered under
\* the same subject, and a stream was closed before the buffer existed while
\* a stream opened after it has been written to by its timer.
C17_Witness ==
    /\ \E w1, w2 \in 1..Len(conns) :
          /\ w1 < w2
          /\ conns[w1].appId = "a" /\ conns[w1].readyState = CLOSED
          /\ Registered("a", w2) /\ ~Registered("a", w1)
    /\ \E s1, s2 \in 1..Len(streams) :
          /\ s1 < s2
          /\ streams[s1].buildId = streams[s2].buildId
          /\ streams[s1].closed /\ streams[s1].frames = 0
          /\ ~streams[s2].closed /\ streams[s2].frames = 2

----------------------------------------------------------------------------
(* Properties of failure isolation *)

\* C18: a subscriber whose connection is not open, or whose connection has
\* failed, affects no one else: a publish still hands the line to every
\* open subscriber of the subject, whatever the state of the subscribers
\* before it in the list; the session that published keeps its timer armed
\* and has advanced by one state; and no step in which a subscriber's
\* connection fails, errors or closes ends the process.
C18_FailureIsolated ==
    [][/\ \A S \in Subjects : PublishStep(S) =>
             \A ws \in 1..Len(conns) :
                (Registered(S, ws) /\ conns[ws].readyState = OPEN)
                   => Delivered(S, ws)
       /\ \A s \in 1..Len(sessions) : Advanced(s) =>
             /\ s \in Range(timerQ')
             /\ sessions'[s].index = sessions[s].index + 1
       /\ (crashed' /\ ~crashed) =>
             \A ws \in 1..Len(conns) :
                conns'[ws] # conns[ws] => conns[ws].appId = Null]_vars

\* The session has published all its lines although the first subscriber of
\* its subject failed and errored after the first line: a subscriber
\* registered behind it has been handed every line.
C18_Witness ==
    /\ ~crashed
    /\ \E s \in 1..Len(sessions) : sessions[s].index = NumMessages
    /\ \E w1, w2 \in 1..Len(conns) :
          /\ w1 < w2
          /\ Registered("a", w1) /\ Registered("a", w2)
          /\ conns[w1].broken /\ conns[w1].readyState = CLOSING
          /\ Len(liveLines(conns[w1].received)) = 1
          /\ conns[w2].readyState = OPEN
          /\ Len(liveLines(conns[w2].received)) = NumMessages

----------------------------------------------------------------------------
(* Properties of the handler chain *)

\* C19 as claimed: every GET /api/system/metrics request reaches the metrics
\* handler and is answered by it; no earlier routing or proxy stage of the
\* chain consumes or forwards it.
C19_MetricsReachAggregator ==
    (/\ Dispatched
     /\ ~MapHas(route.headers, "upgrade")
     /\ route.method = "GET"
     /\ route.path = MetricsPath)
        => route.handler = "metrics"

\* C20 as claimed: a WebSocket upgrade request on the hostname of a Running
\* app is forwarded to that app's backend, and the edge does not close its
\* socket.
C20_UpgradeForwarded ==
    (/\ Dispatched
     /\ MapHas(route.headers, "upgrade")
     /\ HostOfRunningApp)
        => /\ route.handler = "appProxy"
           /\ route.result.target = RunningBackend

----------------------------------------------------------------------------
(* Properties of registration, buffers and purges *)

\* The places where ws stands in the subscriber lists: <<subject, position>>
Registrations(ws) ==
    UNION {{<<S, i>> : i \in {j \in 1..Len(logSubscribers[S]) :
                                 logSubscribers[S][j] = ws}} :
             S \in DOMAIN logSubscribers}

\* C21 as claimed: every connection accepted on /ws/logs that has not closed
\* yet stands in the subscriber list of exactly one subject, exactly once.
C21_ExactlyOneRegistration ==
    \A ws \in 1..Len(conns) :
       conns[ws].readyState # CLOSED => Cardinality(Registrations(ws)) = 1

\* C22 as claimed: a buffer that exists before and after a step is either
\* unchanged or has exactly one more line at its end, the earlier lines and
\* their order being kept.
C22_BufferAppendOnly ==
    [][\A S \in DOMAIN buildLogs \cap DOMAIN buildLogs' :
          \/ buildLogs'[S] = buildLogs[S]
          \/ /\ Len(buildLogs'[S]) = Len(buildLogs[S]) + 1
             /\ SubSeq(buildLogs'[S], 1, Len(buildLogs[S])) = buildLogs[S]]_vars

\* C23: a registered connection that has closed or raised an error, and so
\* is no longer open, is eventually removed from the subscriber list of its
\* subject.
C23_ClosedEventuallyUnregistered ==
    \A ws \in 1..MaxConns :
       (/\ ws \in 1..Len(conns)
        /\ Registered("a", ws)
        /\ conns[ws].readyState # OPEN)
          ~> ~Registered("a", ws)

\* A subscriber that failed and raised an error has been removed from the
\* list of its subject, in which a later subscriber still stands, and lines
\* were published after its removal.
C23_Witness ==
    \E w1, w2 \in 1..Len(conns) :
       /\ w1 < w2
       /\ conns[w1].appId = "a" /\ conns[w1].broken
       /\ conns[w1].readyState = CLOSED
       /\ ~Registered("a", w1) /\ Registered("a", w2)
       /\ Len(published["a"]) > conns[w1].closedAt

\* Every session started for subject S has published all its lines
AllComplete(S) ==
    /\ \E s \in 1..Len(sessions) : sessions[s].appId = S
    /\ \A s \in 1..Len(sessions) :
          sessions[s].appId = S => sessions[s].index = NumMessages

\* C24 as claimed: an open connection that subscribed with appId = buildId
\* = S while the session of S was running (its replay holds a buffer that
\* was not complete yet) has been sent, once the session is complete, the
\* lines of the replay followed by the lines of the broadcasts, and these
\* are exactly the buffer of S: no line missing, none twice, in order.
C24_ReplayThenLiveIsBuffer ==
    \A ws \in 1..Len(conns) :
       LET S == conns[ws].appId
           received == conns[ws].received IN
       (/\ conns[ws].readyState = OPEN
        /\ S # Null /\ conns[ws].buildId = S
        /\ received # <<>>
        /\ ~received[1].timestamp
        /\ Len(received[1].data) <= NumMessages
        /\ AllComplete(S)
        /\ MapHas(buildLogs, S))
          => received[1].data \o liveLines(received) = buildLogs[S]

\* C25 as claimed: the buffer of a session is deleted only by the purge that
\* the session's own completion scheduled: in every step that deletes the
\* buffer of subject S, every session started for S has published all its
\* lines and has stopped its timer (it is Complete and has scheduled its
\* purge), so no buffer is deleted under a session that is still running.
C25_PurgedOnlyByOwnPurge ==
    [][\A S \in DOMAIN buildLogs :
          ~MapHas(buildLogs', S) =>
             \A s \in 1..Len(sessions) :
                sessions[s].appId = S =>
                   /\ sessions[s].index = NumMessages
                   /\ s \notin Range(timerQ)]_vars

====
